---- MODULE Spec2Model ----
(***************************************************************************)
(* Book Finder (src/App.js): the search and pagination state of the App    *)
(* component, its event handlers, and the asynchronous completion of       *)
(* fetchBooks.  One action per handler; one action per way a pending       *)
(* fetchBooks call can resume after its awaits.                            *)
(*                                                                         *)
(* Handlers are modelled as operations that can be invoked in every state  *)
(* (the quick-search buttons are never disabled; the submit and load-more  *)
(* buttons carry their own `disabled` attributes, which are presentation). *)
(* Strings are sequences of tokens; the token " " is whitespace.           *)
(***************************************************************************)
EXTENDS Integers, Sequences, FiniteSets, TLC

\* ---------------------------------------------------------------- bounds
\* Total number of requests issued in one behaviour.
MaxRequests == 3

\* Total number of requests when the collections are exercised alongside.
MaxAppRequests == 2

\* Largest number of entries put into one collection.
MaxStored == 2

\* Last reading of the clock.
MaxTime == 1

\* ------------------------------------------------------- program constants
\* limit=12 in the request URL, and the `=== 12` of the hasMore heuristic.
PageSize == 12

Null == "null"

\* The options of the search-field select.
SearchTypes == {"title", "author", "subject"}

\* The options the user switches between here; the handlers treat the third,
\* subject, exactly like these two.
FieldChoices == {"title", "author"}

\* Values the user types into the query input (it starts empty): blank text
\* and a query.
TextInputs == { <<" ">>, <<"a">> }

\* quickSearchSuggestions (a representative of the eight entries).
quickSearchSuggestions == { [type |-> "title", query |-> <<"1984">>] }

\* The ways fetchBooks' try block can throw.
FailureKinds == {"network", "http", "parse"}

\* Sizes of the result set the remote service holds for a query: none, exactly
\* one full page, two full pages and one record more.
Totals == {0, PageSize, 2 * PageSize + 1}

\* useState({yearFrom: '', yearTo: '', language: '', subject: ''})
NoFilters == [yearFrom |-> "", yearTo |-> "", language |-> "", subject |-> ""]

\* The filter inputs of the form, and what the user enters into each: nothing
\* or a value.
FilterInputs ==
    { [name |-> "yearFrom", value |-> ""], [name |-> "yearFrom", value |-> "1990"],
      [name |-> "yearTo", value |-> ""],   [name |-> "yearTo", value |-> "2000"],
      [name |-> "language", value |-> ""], [name |-> "language", value |-> "eng"] }

VARIABLES
    searchQuery,      \* useState('')
    searchType,       \* useState('title')
    books,            \* useState([])
    loading,          \* useState(false)
    error,            \* useState(null)
    currentPage,      \* useState(1)
    hasMoreResults,   \* useState(false)
    inflight,         \* fetchBooks calls suspended at an await
    catalog,          \* environment: number of records the service holds for a query
    issued,           \* history: number of requests issued so far
    lastSearchId,     \* history: id of the most recently issued search request
    last,             \* history: the last event
    sess,             \* history: the fetches since the last search
    fieldReset,       \* history: field changed and no search succeeded since
    bookmarks,        \* useState([])
    readingList,      \* useState([])
    now,              \* environment: the clock read by new Date()
    hist,             \* history: the last collection operation
    card,             \* a BookCard: its book prop and what it displays
    filters           \* useState({yearFrom: '', yearTo: '', language: '', subject: ''})

vars == <<searchQuery, searchType, books, loading, error, currentPage,
          hasMoreResults, inflight, catalog, issued, lastSearchId, last,
          sess, fieldReset, bookmarks, readingList, now, hist, card, filters>>

\* What the search handlers and fetchBooks never write.
aside == <<bookmarks, readingList, now, hist, card, filters>>

\* What the collection handlers never write.
session == <<searchQuery, searchType, books, loading, error, currentPage,
             hasMoreResults, inflight, catalog, issued, lastSearchId, last,
             sess, fieldReset>>

ctrl == <<books, loading, error, currentPage, hasMoreResults>>

\* -------------------------------------------------------------- helpers
Min(a, b) == IF a < b THEN a ELSE b

IsSpace(c) == c = " "

RECURSIVE TrimStart(_)
TrimStart(s) ==
    IF s = <<>> THEN <<>>
    ELSE IF IsSpace(Head(s)) THEN TrimStart(Tail(s)) ELSE s

RECURSIVE TrimEnd(_)
TrimEnd(s) ==
    IF s = <<>> THEN <<>>
    ELSE IF IsSpace(s[Len(s)]) THEN TrimEnd(SubSeq(s, 1, Len(s) - 1)) ELSE s

\* Variant: the text is used as typed.
TrimNone(s) == s

\* String.prototype.trim
Trim(s) == TrimEnd(TrimStart(s))

NoReq ==
    [id |-> 0, query |-> <<>>, type |-> "title", page |-> 0, append |-> FALSE,
     filters |-> NoFilters, recovering |-> FALSE]

\* The spec's status, read off the two flags the component keeps.
Status == IF loading THEN "loading" ELSE IF error # Null THEN "error" ELSE "idle"

\* The docs array the service returns for a request: page r.page, PageSize
\* records per page, of the records it holds for the query.  Each record is
\* marked with the query it answers.
Batch(r) ==
    LET total == catalog
        lo    == (r.page - 1) * PageSize + 1
        hi    == Min(r.page * PageSize, total)
        size  == IF hi >= lo THEN hi - lo + 1 ELSE 0
    IN  [i \in 1..size |->
            [query |-> r.query, type |-> r.type, filters |-> r.filters, n |-> lo + i - 1]]

\* `Failed to fetch books: ${err.message}`
ErrorMessage(kind) ==
    CASE kind = "network" -> "Failed to fetch books: Failed to fetch"
      [] kind = "http"    -> "Failed to fetch books: HTTP error! status: 500"
      [] kind = "parse"   -> "Failed to fetch books: Unexpected token"

\* ---------------------------------------------------------------- records
\* A member the JSON record does not have (undefined).
Absent == "<absent>"

\* A record without an addedDate; a record without a first_publish_year or
\* a cover_i.
NoDate == -1

NoNumber == -1

\* What `||` takes for false: undefined and the empty string; undefined and 0.
FalsyText(v) == v = Absent \/ v = ""

FalsyNumber(v) == v = NoNumber \/ v = 0

Book(key, title) == [key |-> key, title |-> title, addedDate |-> NoDate]

\* Records the cards hand to the collection handlers: one with a key, one
\* without a key, one whose key is the title of another, one with an empty key.
StoreBooks ==
    { Book("/works/OL1W", "Dune"), Book(Absent, "Dune"),
      Book("Dune", "Emma"), Book("", "Emma") }

\* The one record put into the collections while fetches are going on.
AppBooks == { Book("/works/OL1W", "Dune") }

\* book.key || book.title
BookId(book) == IF ~FalsyText(book.key) THEN book.key ELSE book.title

\* prev.some(b => (b.key || b.title) === bookId)
Some(list, bookId) == \E i \in 1..Len(list) : BookId(list[i]) = bookId

NoOperation ==
    [op |-> "none", book |-> Book(Absent, Absent), id |-> Absent,
     changed |-> FALSE, marks |-> <<>>, twice |-> FALSE]

NoCard ==
    [rendered |-> FALSE,
     book |-> [title |-> Absent, author_name |-> [defined |-> FALSE, items |-> <<>>],
               first_publish_year |-> NoNumber, cover_i |-> NoNumber, key |-> Absent],
     title |-> Absent, authors |-> <<>>, publishYear |-> [text |-> "", year |-> NoNumber],
     bookId |-> Absent, coverImageUrl |-> [defined |-> FALSE, id |-> NoNumber]]

\* ------------------------------------------------------------------ Init
Init ==
    /\ searchQuery = <<>>
    /\ searchType = "title"
    /\ books = <<>>
    /\ loading = FALSE
    /\ error = Null
    /\ currentPage = 1
    /\ hasMoreResults = FALSE
    /\ inflight = {}
    /\ catalog \in Totals
    /\ issued = 0
    /\ lastSearchId = 0
    /\ last = [op |-> "init", accepted |-> FALSE, req |-> NoReq, had |-> FALSE,
               stored |-> 0]
    /\ sess = [clean |-> FALSE, started |-> FALSE, n |-> 0, expect |-> <<>>]
    /\ fieldReset = FALSE
    /\ bookmarks = <<>>
    /\ readingList = <<>>
    /\ now = 0
    /\ hist = NoOperation
    /\ card = NoCard
    /\ filters = NoFilters

\* --------------------------------------------------------------- events
NoSession == [clean |-> FALSE, started |-> FALSE, n |-> 0, expect |-> <<>>]

\* The last event: the operation, whether it got past its guards, the request
\* it issued or completed, and whether results were on display before it.
Event(op, accepted, req) ==
    [op |-> op, accepted |-> accepted, req |-> req, had |-> (books # <<>>),
     stored |-> Len(bookmarks) + Len(readingList)]

\* A call of fetchBooks that got to its fetch: its arguments, the filters of
\* its closure, and whether an error message was on display when it started.
NewRequest(query, type, page, append) ==
    [id |-> issued + 1, query |-> query, type |-> type, page |-> page, append |-> append,
     filters |-> filters, recovering |-> (~loading /\ error # Null)]

\* Variant: fetchBooks without its early return on blank text.
FetchBooksUnchecked(query, type, page, append) ==
    /\ loading' = TRUE
    /\ error' = Null
    /\ inflight' = inflight \cup {NewRequest(query, type, page, append)}
    /\ issued' = issued + 1

\* fetchBooks, up to its first await: the early return on blank text, then
\* setLoading(true), setError(null) and the request.
FetchBooks(query, type, page, append) ==
    IF Trim(query) = <<>>
    THEN UNCHANGED <<loading, error, inflight, issued>>
    ELSE /\ loading' = TRUE
         /\ error' = Null
         /\ inflight' = inflight \cup {NewRequest(query, type, page, append)}
         /\ issued' = issued + 1

\* Variant: the page is not reset when a search starts.
PageOnSearchKept == currentPage

\* setCurrentPage(1) of handleSearch and handleQuickSearch
PageOnSearch == 1

\* A search request starts a new session of fetches.
NewSession == [NoSession EXCEPT !.clean = (inflight = {})]

\* handleSearch (form submit)
HandleSearch ==
    LET accepted == Trim(searchQuery) # <<>>
        req      == NewRequest(searchQuery, searchType, 1, FALSE)
    IN  /\ accepted => issued < MaxRequests
        /\ IF accepted
           THEN /\ currentPage' = PageOnSearch
                /\ FetchBooks(searchQuery, searchType, 1, FALSE)
                /\ lastSearchId' = req.id
                /\ sess' = NewSession
           ELSE UNCHANGED <<currentPage, loading, error, inflight, issued,
                            lastSearchId, sess>>
        /\ last' = Event("search", accepted, IF accepted THEN req ELSE NoReq)
        /\ UNCHANGED <<searchQuery, searchType, books, hasMoreResults, catalog, fieldReset>>
        /\ UNCHANGED aside

\* Variant: the guard does not look at the loading flag.
LoadMoreAllowedIgnoringLoading == hasMoreResults

\* The guard of handleLoadMore.
LoadMoreAllowed == hasMoreResults /\ ~loading

\* handleLoadMore
HandleLoadMore ==
    LET accepted == LoadMoreAllowed /\ Trim(searchQuery) # <<>>
        req      == NewRequest(searchQuery, searchType, currentPage + 1, TRUE)
    IN  /\ accepted => issued < MaxRequests
        /\ IF LoadMoreAllowed
           THEN FetchBooks(searchQuery, searchType, currentPage + 1, TRUE)
           ELSE UNCHANGED <<loading, error, inflight, issued>>
        /\ sess' = IF accepted /\ sess.clean /\ inflight # {} THEN NoSession ELSE sess
        /\ last' = Event("loadMore", accepted, IF accepted THEN req ELSE NoReq)
        /\ UNCHANGED <<searchQuery, searchType, books, currentPage, hasMoreResults,
                       catalog, lastSearchId, fieldReset>>
        /\ UNCHANGED aside

\* handleSearchTypeChange (the select's onChange)
\* Variant: changing the search field also empties both collections.
HandleSearchTypeChangeClearingAll(value) ==
    /\ value # searchType
    /\ searchType' = value
    /\ books' = <<>>
    /\ currentPage' = 1
    /\ hasMoreResults' = FALSE
    /\ sess' = NoSession
    /\ fieldReset' = TRUE
    /\ last' = Event("typeChange", TRUE, NoReq)
    /\ bookmarks' = <<>>
    /\ readingList' = <<>>
    /\ UNCHANGED <<searchQuery, loading, error, inflight, catalog, issued, lastSearchId>>
    /\ UNCHANGED <<now, hist, card, filters>>

HandleSearchTypeChange(value) ==
    /\ value # searchType
    /\ searchType' = value
    /\ books' = <<>>
    /\ currentPage' = 1
    /\ hasMoreResults' = FALSE
    /\ sess' = NoSession
    /\ fieldReset' = TRUE
    /\ last' = Event("typeChange", TRUE, NoReq)
    /\ UNCHANGED <<searchQuery, loading, error, inflight, catalog, issued, lastSearchId>>
    /\ UNCHANGED aside

\* The query input's onChange: setSearchQuery(e.target.value)
SetSearchQuery(value) ==
    /\ value # searchQuery
    /\ searchQuery' = value
    /\ last' = Event("edit", TRUE, NoReq)
    /\ UNCHANGED <<searchType, books, loading, error, currentPage, hasMoreResults,
                   inflight, catalog, issued, lastSearchId, sess, fieldReset>>
    /\ UNCHANGED aside

\* handleQuickSearch
HandleQuickSearch(suggestion) ==
    LET req == NewRequest(suggestion.query, suggestion.type, 1, FALSE)
    IN  /\ issued < MaxRequests
        /\ searchType' = suggestion.type
        /\ searchQuery' = suggestion.query
        /\ currentPage' = PageOnSearch
        /\ FetchBooks(suggestion.query, suggestion.type, 1, FALSE)
        /\ lastSearchId' = req.id
        /\ sess' = NewSession
        /\ last' = Event("quickSearch", TRUE, req)
        /\ UNCHANGED <<books, hasMoreResults, catalog, fieldReset>>
        /\ UNCHANGED aside

\* ------------------------------------------- completion of a fetchBooks call
\* Variant: a load-more batch is put in front of the results.
BooksOnSuccessPrepending(r, docs) == IF r.append THEN docs \o books ELSE docs

\* setBooks(prevBooks => append ? [...prevBooks, ...newBooks] : newBooks)
BooksOnSuccess(r, docs) == IF r.append THEN books \o docs ELSE docs

\* Variants: any non-empty batch counts as a full page; only an overfull one does.
HasMoreOnSuccessIfAny(docs) == Len(docs) > 0

HasMoreOnSuccessOverfull(docs) == Len(docs) > PageSize

\* setHasMoreResults(data.docs.length === 12)
HasMoreOnSuccess(docs) == Len(docs) = PageSize

\* if (!append) setBooks([])  -- the else branch and the catch block
BooksOnEmpty(r) == IF ~r.append THEN <<>> ELSE books

\* Variants: the catch block never clears the results; it always clears them.
BooksOnFailureKept(r) == books

BooksOnFailureCleared(r) == <<>>

BooksOnFailure(r) == IF ~r.append THEN <<>> ELSE books

\* The fetches of the session, as the history records them.
SessionAfterSuccess(r, docs) ==
    IF ~sess.clean THEN sess
    ELSE IF ~r.append
         THEN [sess EXCEPT !.started = TRUE, !.expect = docs]
         ELSE [sess EXCEPT !.n = @ + 1, !.expect = @ \o docs]

\* The response is ok and its JSON carries a docs array (possibly empty).
DeliverDocs(r) ==
    LET docs == Batch(r)
    IN  /\ r \in inflight
        /\ inflight' = inflight \ {r}
        /\ IF Len(docs) > 0
           THEN /\ books' = BooksOnSuccess(r, docs)
                /\ hasMoreResults' = HasMoreOnSuccess(docs)
                /\ currentPage' = r.page
           ELSE /\ books' = BooksOnEmpty(r)
                /\ hasMoreResults' = FALSE
                /\ UNCHANGED currentPage
        /\ loading' = FALSE
        /\ sess' = SessionAfterSuccess(r, docs)
        /\ fieldReset' = (fieldReset /\ r.append)
        /\ last' = Event("docs", TRUE, r)
        /\ UNCHANGED <<searchQuery, searchType, error, catalog, issued, lastSearchId>>
        /\ UNCHANGED aside

\* The response is ok and its JSON has no docs member.
DeliverNoDocs(r) ==
    /\ r \in inflight
    /\ inflight' = inflight \ {r}
    /\ books' = BooksOnEmpty(r)
    /\ hasMoreResults' = FALSE
    /\ loading' = FALSE
    /\ sess' = SessionAfterSuccess(r, <<>>)
    /\ fieldReset' = (fieldReset /\ r.append)
    /\ last' = Event("nodocs", TRUE, r)
    /\ UNCHANGED <<searchQuery, searchType, error, currentPage, catalog, issued,
                   lastSearchId>>
    /\ UNCHANGED aside

\* Variant: the catch block without the finally block.
DeliverFailWithoutFinally(r, kind) ==
    /\ r \in inflight
    /\ inflight' = inflight \ {r}
    /\ error' = ErrorMessage(kind)
    /\ books' = BooksOnFailure(r)
    /\ sess' = IF r.append THEN sess ELSE NoSession
    /\ last' = Event("fail", TRUE, r)
    /\ UNCHANGED <<searchQuery, searchType, loading, currentPage, hasMoreResults, catalog,
                   issued, lastSearchId, fieldReset>>
    /\ UNCHANGED aside

\* fetch rejects, response.ok is false, or response.json() rejects.
DeliverFail(r, kind) ==
    /\ r \in inflight
    /\ inflight' = inflight \ {r}
    /\ error' = ErrorMessage(kind)
    /\ books' = BooksOnFailure(r)
    /\ loading' = FALSE
    /\ sess' = IF r.append THEN sess ELSE NoSession
    /\ last' = Event("fail", TRUE, r)
    /\ UNCHANGED <<searchQuery, searchType, currentPage, hasMoreResults, catalog,
                   issued, lastSearchId, fieldReset>>
    /\ UNCHANGED aside

Next ==
    \/ \E suggestion \in quickSearchSuggestions : HandleQuickSearch(suggestion)
    \/ HandleSearch
    \/ HandleLoadMore
    \/ \E value \in FieldChoices : HandleSearchTypeChange(value)
    \/ \E value \in TextInputs : SetSearchQuery(value)
    \/ \E r \in inflight : DeliverDocs(r)
    \/ \E r \in inflight : DeliverNoDocs(r)
    \/ \E r \in inflight, kind \in FailureKinds : DeliverFail(r, kind)

Spec == Init /\ [][Next]_vars

\* The search handlers and the fetch completions, overlapping fetches included,
\* in runs where the service answers every request it is sent.
Budget == issued' <= MaxAppRequests

Settle ==
    \E r \in inflight :
        DeliverDocs(r) \/ DeliverNoDocs(r) \/ \E kind \in FailureKinds : DeliverFail(r, kind)

NextLive ==
    \/ \E suggestion \in quickSearchSuggestions : HandleQuickSearch(suggestion) /\ Budget
    \/ HandleSearch /\ Budget
    \/ HandleLoadMore /\ Budget
    \/ \E value \in FieldChoices : HandleSearchTypeChange(value)
    \/ \E value \in TextInputs : SetSearchQuery(value)
    \/ \E r \in inflight : DeliverDocs(r)
    \/ \E r \in inflight : DeliverNoDocs(r)
    \/ \E r \in inflight, kind \in FailureKinds : DeliverFail(r, kind)

SpecLive == Init /\ [][NextLive]_vars /\ WF_vars(Settle)

\* A step that leaves at most one fetch in flight, as the disabled submit and
\* load-more buttons have it.
OneAtATime == issued' <= MaxAppRequests /\ Cardinality(inflight') <= 1

\* ---------------------------------------------------------------- filters
\* handleFilterChange: setFilters(prev => ({...prev, [filterName]: value}))
HandleFilterChange(filterName, value) ==
    /\ filters[filterName] # value
    /\ filters' = [filters EXCEPT ![filterName] = value]
    /\ last' = Event("filter", TRUE, NoReq)
    /\ UNCHANGED <<searchQuery, searchType, books, loading, error, currentPage,
                   hasMoreResults, inflight, catalog, issued, lastSearchId, sess,
                   fieldReset>>
    /\ UNCHANGED <<bookmarks, readingList, now, hist, card>>

\* clearFilters
ClearFilters ==
    /\ filters # NoFilters
    /\ filters' = NoFilters
    /\ last' = Event("filter", TRUE, NoReq)
    /\ UNCHANGED <<searchQuery, searchType, books, loading, error, currentPage,
                   hasMoreResults, inflight, catalog, issued, lastSearchId, sess,
                   fieldReset>>
    /\ UNCHANGED <<bookmarks, readingList, now, hist, card>>

\* ------------------------------------------------------------ request URL
\* encodeURIComponent, on the tokens used here: a space becomes %20.
EncodeURIComponent(text) ==
    [i \in 1..Len(text) |-> IF text[i] = " " THEN "%20" ELSE text[i]]

\* Variant: every field but author is sent as title.
SearchParamTitleOrAuthor(type) == IF type = "author" THEN "author" ELSE "title"

\* type === 'author' ? 'author' : type === 'subject' ? 'subject' : 'title'
SearchParam(type) ==
    IF type = "author" THEN "author" ELSE IF type = "subject" THEN "subject" ELSE "title"

\* Variant: the language parameter is always appended.
FilterParamsWithLanguage(f) ==
    (IF f.yearFrom # "" THEN << <<"first_publish_year[from]", f.yearFrom>> >> ELSE <<>>)
    \o (IF f.yearTo # "" THEN << <<"first_publish_year[to]", f.yearTo>> >> ELSE <<>>)
    \o << <<"language", f.language>> >>

\* if (filters.yearFrom) ... if (filters.yearTo) ... if (filters.language) ...
FilterParams(f) ==
    (IF f.yearFrom # "" THEN << <<"first_publish_year[from]", f.yearFrom>> >> ELSE <<>>)
    \o (IF f.yearTo # "" THEN << <<"first_publish_year[to]", f.yearTo>> >> ELSE <<>>)
    \o (IF f.language # "" THEN << <<"language", f.language>> >> ELSE <<>>)

\* apiUrl: the search parameter with the encoded text, page, limit, and the
\* parameters of the filters.
ApiUrl(r) ==
    [path   |-> "https://openlibrary.org/search.json",
     search |-> << <<SearchParam(r.type), EncodeURIComponent(r.query)>> >>,
     page   |-> r.page,
     limit  |-> PageSize,
     more   |-> FilterParams(r.filters)]

\* Searching and paging with every search field and with the filters being set
\* and cleared: one fetch at a time, each answered with a docs array, the text
\* that of the quick search.
NextQuery ==
    \/ \E suggestion \in quickSearchSuggestions : HandleQuickSearch(suggestion) /\ OneAtATime
    \/ HandleSearch /\ OneAtATime
    \/ HandleLoadMore /\ OneAtATime
    \/ \E value \in SearchTypes : HandleSearchTypeChange(value)
    \/ \E input \in FilterInputs : HandleFilterChange(input.name, input.value)
    \/ ClearFilters
    \/ \E r \in inflight : DeliverDocs(r)

SpecQuery == Init /\ [][NextQuery]_vars

\* ------------------------------------------------------------ collections
\* The last collection operation: its argument, whether it changed its
\* collection, the bookmarks before a toggle, and whether the operation before
\* it was the same one on the same record.
Operation(op, book, id, changed) ==
    [op |-> op, book |-> book, id |-> id, changed |-> changed,
     marks |-> IF op = "toggle" THEN bookmarks ELSE <<>>,
     twice |-> (hist.op = op /\ hist.book = book /\ hist.id = id)]

\* Variants: toggling always adds; toggling a bookmarked record empties the store.
BookmarksAfterToggleAlwaysAdd(book) == Append(bookmarks, book)

BookmarksAfterToggleClearing(book) ==
    IF Some(bookmarks, BookId(book)) THEN <<>> ELSE Append(bookmarks, book)

\* Variant: a record that is not bookmarked is put in front.
BookmarksAfterTogglePrepending(book) ==
    IF Some(bookmarks, BookId(book))
    THEN SelectSeq(bookmarks, LAMBDA b : BookId(b) # BookId(book))
    ELSE <<book>> \o bookmarks

\* The updater toggleBookmark hands to setBookmarks.
BookmarksAfterToggle(book) ==
    LET bookId       == BookId(book)
        isBookmarked == Some(bookmarks, bookId)
    IN  IF isBookmarked
        THEN SelectSeq(bookmarks, LAMBDA b : BookId(b) # bookId)
        ELSE Append(bookmarks, book)

\* Variant: toggling a bookmark also ends the loading state.
ToggleBookmarkEndingLoading(book) ==
    /\ ~Some(bookmarks, BookId(book)) => Len(bookmarks) < MaxStored
    /\ bookmarks' = BookmarksAfterToggle(book)
    /\ hist' = Operation("toggle", book, BookId(book), TRUE)
    /\ loading' = FALSE
    /\ UNCHANGED <<readingList, now, card, filters>>
    /\ UNCHANGED <<searchQuery, searchType, books, error, currentPage, hasMoreResults,
                   inflight, catalog, issued, lastSearchId, last, sess, fieldReset>>

\* toggleBookmark
ToggleBookmark(book) ==
    /\ ~Some(bookmarks, BookId(book)) => Len(bookmarks) < MaxStored
    /\ bookmarks' = BookmarksAfterToggle(book)
    /\ hist' = Operation("toggle", book, BookId(book), TRUE)
    /\ UNCHANGED <<readingList, now, card, filters>>
    /\ UNCHANGED session

\* Variant: adding a record that is in the list renews its date.
ReadingListAfterAddRenewing(book) ==
    IF Some(readingList, BookId(book))
    THEN [i \in 1..Len(readingList) |->
            IF BookId(readingList[i]) = BookId(book)
            THEN [readingList[i] EXCEPT !.addedDate = now] ELSE readingList[i]]
    ELSE Append(readingList, [book EXCEPT !.addedDate = now])

\* The updater addToReadingList hands to setReadingList.
ReadingListAfterAdd(book) ==
    LET bookId   == BookId(book)
        isInList == Some(readingList, bookId)
    IN  IF ~isInList
        THEN Append(readingList, [book EXCEPT !.addedDate = now])
        ELSE readingList

\* addToReadingList
AddToReadingList(book) ==
    /\ ~Some(readingList, BookId(book)) => Len(readingList) < MaxStored
    /\ readingList' = ReadingListAfterAdd(book)
    /\ hist' = Operation("add", book, BookId(book), readingList' # readingList)
    /\ UNCHANGED <<bookmarks, now, card, filters>>
    /\ UNCHANGED session

\* Variant: removal drops the entry and everything after it.
ReadingListAfterRemoveTruncating(bookId) ==
    IF Some(readingList, bookId)
    THEN SubSeq(readingList, 1,
                (CHOOSE i \in 1..Len(readingList) : BookId(readingList[i]) = bookId) - 1)
    ELSE readingList

\* The updater removeFromReadingList hands to setReadingList.
ReadingListAfterRemove(bookId) ==
    SelectSeq(readingList, LAMBDA b : BookId(b) # bookId)

\* removeFromReadingList
RemoveFromReadingList(bookId) ==
    /\ readingList' = ReadingListAfterRemove(bookId)
    /\ hist' = Operation("remove", Book(Absent, Absent), bookId, readingList' # readingList)
    /\ UNCHANGED <<bookmarks, now, card, filters>>
    /\ UNCHANGED session

\* Time passes between two user actions.
Tick ==
    /\ now < MaxTime
    /\ now' = now + 1
    /\ UNCHANGED <<bookmarks, readingList, hist, card, filters>>
    /\ UNCHANGED session

\* The buttons of the cards of the search results and of the reading list.
NextStore ==
    \/ \E book \in StoreBooks : ToggleBookmark(book)
    \/ \E book \in StoreBooks : AddToReadingList(book)
    \/ \E book \in StoreBooks : RemoveFromReadingList(BookId(book))
    \/ Tick

SpecStore == Init /\ [][NextStore]_vars

\* The whole application: searching and paging, one fetch at a time, while one
\* record is put into and taken out of the collections.
NextApp ==
    \/ \E suggestion \in quickSearchSuggestions : HandleQuickSearch(suggestion) /\ OneAtATime
    \/ HandleSearch /\ OneAtATime
    \/ HandleLoadMore /\ OneAtATime
    \/ \E value \in FieldChoices : HandleSearchTypeChange(value)
    \/ \E value \in TextInputs : SetSearchQuery(value)
    \/ \E r \in inflight : DeliverDocs(r)
    \/ \E r \in inflight : DeliverNoDocs(r)
    \/ \E r \in inflight, kind \in FailureKinds : DeliverFail(r, kind)
    \/ \E book \in AppBooks : ToggleBookmark(book)
    \/ \E book \in AppBooks : AddToReadingList(book)
    \/ \E book \in AppBooks : RemoveFromReadingList(BookId(book))

SpecApp == Init /\ [][NextApp]_vars

\* ------------------------------------------------------------------ cards
\* Records as the service may send them: each member there or not, the text
\* members possibly empty, the numbers possibly 0, the authors possibly none.
CardBooks ==
    [title              : {Absent, "", "Dune"},
     author_name        : {[defined |-> FALSE, items |-> <<>>],
                           [defined |-> TRUE, items |-> <<>>],
                           [defined |-> TRUE, items |-> <<"Frank Herbert">>],
                           [defined |-> TRUE, items |-> <<"Frank Herbert", "Brian Herbert">>]},
     first_publish_year : {NoNumber, 0, 1965},
     cover_i            : {NoNumber, 42},
     key                : {Absent, "/works/OL1W"}]

UnknownYear == [text |-> "Unknown Year", year |-> NoNumber]

Year(y) == [text |-> "", year |-> y]

\* book.title || 'Unknown Title'
CardTitle(book) == IF ~FalsyText(book.title) THEN book.title ELSE "Unknown Title"

\* book.author_name || ['Unknown Author']: every array is taken for true.
CardAuthors(book) ==
    IF book.author_name.defined THEN book.author_name.items ELSE <<"Unknown Author">>

\* book.first_publish_year || 'Unknown Year'
CardPublishYear(book) ==
    IF ~FalsyNumber(book.first_publish_year) THEN Year(book.first_publish_year)
    ELSE UnknownYear

\* coverId ? `https://covers.openlibrary.org/b/id/${coverId}-M.jpg` : null
CardCoverImageUrl(book) ==
    IF ~FalsyNumber(book.cover_i) THEN [defined |-> TRUE, id |-> book.cover_i]
    ELSE [defined |-> FALSE, id |-> NoNumber]

\* BookCard, up to the values it displays
RenderBookCard(book) ==
    /\ card' = [rendered      |-> TRUE,
                book          |-> book,
                title         |-> CardTitle(book),
                authors       |-> CardAuthors(book),
                publishYear   |-> CardPublishYear(book),
                bookId        |-> BookId(book),
                coverImageUrl |-> CardCoverImageUrl(book)]
    /\ UNCHANGED <<bookmarks, readingList, now, hist, filters>>
    /\ UNCHANGED session

NextCard == \E book \in CardBooks : RenderBookCard(book)

SpecCard == Init /\ [][NextCard]_vars

TypeOK ==
    /\ searchType \in SearchTypes
    /\ loading \in BOOLEAN
    /\ hasMoreResults \in BOOLEAN
    /\ currentPage \in 1..(MaxRequests + 1)
    /\ issued \in 0..MaxRequests
    /\ Cardinality(inflight) <= MaxRequests

\* ================================================================ claims
IsSearch(e) == e.op \in {"search", "quickSearch"} /\ e.accepted

IsDelivery(e) == e.op \in {"docs", "nodocs", "fail"}

IsSuccess(e) == e.op \in {"docs", "nodocs"}

\* C1: at most one fetch is in flight: in every reachable state at most one
\* request to the search service is outstanding.
C1_AtMostOneInFlight == Cardinality(inflight) <= 1

\* C2: a stale response is discarded: the response of a loadMore request that
\* was in flight when a later search was issued does not modify results, page
\* or hasMore when it arrives.
C2_StaleResponseDiscarded ==
    [][ (IsDelivery(last') /\ last'.req \in inflight /\ last'.req.append
            /\ last'.req.id < lastSearchId)
        => (books' = books /\ currentPage' = currentPage
            /\ hasMoreResults' = hasMoreResults) ]_vars

C4_PaginationMonotonic ==
    (sess.clean /\ sess.started /\ inflight = {})
        => (books = sess.expect /\ currentPage = sess.n + 1)

C6_FailedSearchClearsResults ==
    (last.op = "fail" /\ ~last.req.append)
        => (Status = "error" /\ error \in {ErrorMessage(k) : k \in FailureKinds}
            /\ books = <<>>)

C6_Witness ==
    /\ last.op = "fail" /\ ~last.req.append /\ last.had
    /\ books = <<>> /\ Status = "error"

\* C7: a failed loadMore ends with status = error and leaves results, page and
\* hasMore as they were; when the failure directly follows the call, a further
\* loadMore is accepted and requests the same page number.
C7_FailedLoadMoreKeepsResults ==
    [][ /\ (last'.op = "fail" /\ last'.req.append)
           => (~loading' /\ error' # Null /\ books' = books
               /\ currentPage' = currentPage /\ hasMoreResults' = hasMoreResults)
        /\ (last.op = "loadMore" /\ last.accepted /\ last'.op = "fail"
               /\ last'.req = last.req)
           => (hasMoreResults' /\ ~loading' /\ Trim(searchQuery') # <<>>
               /\ currentPage' + 1 = last.req.page) ]_vars

C7_Witness ==
    /\ last.op = "fail" /\ last.req.append
    /\ books # <<>> /\ Status = "error"
    /\ hasMoreResults /\ currentPage + 1 = last.req.page

\* C8: changing the search field resets pagination at once (results empty,
\* page 1, hasMore false), so loadMore is a no-op until a search succeeds.
C8_FieldChangeResets ==
    /\ last.op = "typeChange" => (books = <<>> /\ currentPage = 1 /\ ~hasMoreResults)
    /\ fieldReset => ~(hasMoreResults /\ ~loading)

\* C9: after every successfully completed fetch, hasMore is true if and only if
\* the returned batch holds exactly 12 records; a missing docs array gives false.
C9_HasMoreIffFullPage ==
    IsSuccess(last)
        => (hasMoreResults <=> (last.op = "docs" /\ Len(Batch(last.req)) = 12))

C9_Witness ==
    /\ last.op = "docs" /\ last.req.append
    /\ Len(Batch(last.req)) \in 1..11
    /\ ~hasMoreResults

\* C10 (as claimed): a search answered with 12 records by a service that has no
\* further pages ends with 12 results and hasMore false.
C10_LastFullPageHasNoMore ==
    (last.op = "docs" /\ ~last.req.append /\ catalog = 12)
        => (Len(books) = 12 /\ ~hasMoreResults)

\* C10 (amended): such a search ends with 12 results and hasMore true; the
\* full-page heuristic cannot see that no further page exists.
C10_LastFullPageReportsMore ==
    (last.op = "docs" /\ ~last.req.append /\ catalog = 12)
        => (Len(books) = 12 /\ hasMoreResults)

C10_Witness ==
    /\ last.op = "docs" /\ ~last.req.append /\ catalog = 12
    /\ Len(books) = 12 /\ hasMoreResults /\ ~loading

\* Text that is empty or whitespace only.
IsBlank(text) == \A i \in 1..Len(text) : text[i] = " "

\* C11: after every successful search, results has at most 12 records and
\* page = 1, whatever batch the response carried and whatever page was reached.
C11_SearchSuccessBounds ==
    (IsSuccess(last) /\ ~last.req.append) => (Len(books) <= 12 /\ currentPage = 1)

\* C12: a search whose query text is empty or only whitespace is a no-op from
\* every state: no request is issued and loading, error, results, page and
\* hasMore are unchanged.
C12_BlankSearchIsNoOp ==
    [][ (last'.op = "search" /\ IsBlank(searchQuery))
        => (~last'.accepted /\ inflight' = inflight /\ issued' = issued
            /\ ctrl' = ctrl) ]_vars

C12_Witness ==
    /\ last.op = "search" /\ ~last.accepted
    /\ searchQuery = <<" ">>
    /\ books # <<>> /\ hasMoreResults /\ currentPage = 2

\* C13: every request issued to the search service carries non-blank query
\* text and a page number >= 1, also when the text was edited after the search.
C13_RequestsCarryTextAndPage ==
    \A r \in inflight : ~IsBlank(r.query) /\ r.page >= 1

C13_Witness ==
    /\ last.op = "loadMore" /\ ~last.accepted
    /\ hasMoreResults /\ ~loading /\ IsBlank(searchQuery)
    /\ books # <<>> /\ inflight = {}

\* C19: a successful response whose docs array is absent or empty is zero
\* results and not an error: a search ends with results empty, hasMore false and
\* status idle without an error message; a loadMore ends with hasMore false and
\* no error.
C19_EmptyResponseIsNotAnError ==
    (IsSuccess(last) /\ (last.op = "nodocs" \/ Batch(last.req) = <<>>))
        => /\ ~hasMoreResults
           /\ error = Null
           /\ ~last.req.append => (books = <<>> /\ Status = "idle")

\* The identity of a record as the collections are specified to see it: its
\* key when it has a non-empty one, and its title otherwise.
Identity(book) == IF book.key \notin {Absent, ""} THEN book.key ELSE book.title

Holds(list, id) == \E i \in 1..Len(list) : Identity(list[i]) = id

NoTwoAlike(list) ==
    \A i, j \in 1..Len(list) : Identity(list[i]) = Identity(list[j]) => i = j

Identities == {Identity(book) : book \in StoreBooks}

\* C14: neither the bookmarks nor the reading list ever holds two entries with
\* the same identity.
C14_NoDuplicateIdentities == NoTwoAlike(bookmarks) /\ NoTwoAlike(readingList)

\* Both collections are full, and a record whose title is the key of an entry
\* of the list was offered to the list and turned down.
C14_Witness ==
    /\ Len(bookmarks) = 2 /\ Len(readingList) = 2
    /\ hist.op = "add" /\ ~hist.changed
    /\ hist.book \notin {[readingList[i] EXCEPT !.addedDate = NoDate] : i \in 1..Len(readingList)}

\* C15: the second of two consecutive toggles of one record leaves every
\* identity in the bookmarks exactly when it was there before the first, and an
\* empty store empty.
C15_ToggleTwiceRestores ==
    [][ (hist' # hist /\ hist'.op = "toggle" /\ hist'.twice)
        => /\ \A id \in Identities : Holds(bookmarks', id) <=> Holds(hist.marks, id)
           /\ hist.marks = <<>> => bookmarks' = <<>> ]_vars

\* A record was toggled twice in a store that held it and another one.
C15_Witness ==
    /\ hist.op = "toggle" /\ hist.twice
    /\ Len(bookmarks) = 2 /\ Holds(bookmarks, Identity(hist.book))

\* C16: adding a record whose identity is in the reading list leaves the list
\* as it is, the first date of the entry included; adding any other record
\* appends one entry, the record with the current time.
C16_AddIsIdempotent ==
    [][ (hist' # hist /\ hist'.op = "add")
        => IF Holds(readingList, Identity(hist'.book))
           THEN readingList' = readingList
           ELSE readingList' = readingList \o << [hist'.book EXCEPT !.addedDate = now] >> ]_vars

\* A record was added again after time had passed, and its entry has the
\* earlier date.
C16_Witness ==
    /\ hist.op = "add" /\ ~hist.changed
    /\ \E i \in 1..Len(readingList) :
          /\ Identity(readingList[i]) = Identity(hist.book)
          /\ readingList[i].addedDate < now

ControllerStep == session' # session

\* C18: no step of the controller changes the bookmarks or the reading list.
C18_ControllerLeavesStores ==
    [][ ControllerStep => (bookmarks' = bookmarks /\ readingList' = readingList) ]_vars

\* A response arrived, and later the search field was changed, while both
\* collections held an entry; the entries are still there.
C18_Witness ==
    /\ last.op = "typeChange" /\ last.stored = 2 /\ last.had
    /\ bookmarks # <<>> /\ readingList # <<>>

\* C20: a card shows the one author "Unknown Author" when the record has no
\* author_name or an empty one, and the record's authors otherwise; it shows
\* "Unknown Year" when the record has no first_publish_year, and the record's
\* year otherwise.
C20_FallbackSentinels ==
    card.rendered =>
        /\ card.authors =
              IF ~card.book.author_name.defined \/ card.book.author_name.items = <<>>
              THEN <<"Unknown Author">>
              ELSE card.book.author_name.items
        /\ card.publishYear =
              IF card.book.first_publish_year = NoNumber
              THEN UnknownYear
              ELSE Year(card.book.first_publish_year)

\* The names of a list of URL parameters, and the value given for a name.
ParamNames(params) == {params[i][1] : i \in 1..Len(params)}

ParamValues(params, name) == {params[i][2] : i \in {j \in 1..Len(params) : params[j][1] = name}}

Occurrences(params, name) == Cardinality({i \in 1..Len(params) : params[i][1] = name})

\* C21: the URL of each request has exactly one of the parameters title,
\* author, subject, namely the search field of the operation that issued it,
\* with the page number and limit=12; it has the year-from, year-to and language
\* parameters exactly when the filter is set, each with the filter's value.
C21_RequestParameters ==
    [][ \A r \in inflight' \ inflight :
          LET u == ApiUrl(r)
              filterParam == [yearFrom |-> "first_publish_year[from]",
                              yearTo   |-> "first_publish_year[to]",
                              language |-> "language"]
          IN  /\ Len(u.search) = 1
              /\ u.search[1][1] \in {"title", "author", "subject"}
              /\ u.search[1][1] = searchType'
              /\ u.page = (IF last'.op = "loadMore" THEN currentPage + 1 ELSE 1)
              /\ u.limit = 12
              /\ ParamNames(u.more) \subseteq {filterParam[f] : f \in DOMAIN filterParam}
              /\ \A f \in DOMAIN filterParam :
                    IF filters[f] # ""
                    THEN /\ Occurrences(u.more, filterParam[f]) = 1
                         /\ ParamValues(u.more, filterParam[f]) = {filters[f]}
                    ELSE Occurrences(u.more, filterParam[f]) = 0 ]_vars

\* A search by subject is in flight that was issued with the two year filters
\* set and the language filter empty.
C21_Witness ==
    /\ last.op = "search" /\ last.accepted
    /\ \E r \in inflight :
          /\ r = last.req /\ r.type = "subject"
          /\ r.filters.yearFrom # "" /\ r.filters.yearTo # "" /\ r.filters.language = ""
          /\ Len(ApiUrl(r).more) = 2

\* C22: results is always the batches of pages 1, 2, ..., k in this order, each
\* once: its i-th record is the i-th record of the result set.
C22_PagesOnceAndInOrder == \A i \in 1..Len(books) : books[i].n = i

\* C23: results are never mixed across queries: all records in results were
\* fetched for the same text, search field and filters.
C23_ResultsOfOneQuery ==
    \A i, j \in 1..Len(books) :
        /\ books[i].query = books[j].query
        /\ books[i].type = books[j].type
        /\ books[i].filters = books[j].filters

\* C24: loading is true if and only if at least one request is in flight.
C24_LoadingIffInFlight == loading <=> (inflight # {})

IsPrefix(a, b) == Len(a) <= Len(b) /\ SubSeq(b, 1, Len(a)) = a

C26_ErrorIffLastFetchFailed ==
    [][ /\ (IsDelivery(last') /\ last'.req \in inflight /\ inflight' = {})
           => ((error' # Null) <=> (last'.op = "fail"))
        /\ (inflight = {} /\ inflight' = {})
           => ((error' # Null) <=> (error # Null)) ]_vars

\* C27: whenever no request is in flight and results is empty, hasMore is false.
C27_NoMoreWithoutResults == (inflight = {} /\ books = <<>>) => ~hasMoreResults

\* C28: no error is fatal: from every state with status = error, a search with
\* non-blank text is accepted and clears the error message as it starts, and
\* when its fetch succeeds the session is idle with the new results and no
\* error message.
C28_SearchRecoversFromError ==
    [][ /\ (/\ Status = "error"
            /\ \/ last'.op = "quickSearch"
               \/ last'.op = "search" /\ ~IsBlank(searchQuery))
           => (last'.accepted /\ last'.req \in inflight' /\ loading' /\ error' = Null)
        /\ (/\ IsSuccess(last') /\ last'.req \in inflight
            /\ ~last'.req.append /\ last'.req.recovering)
           => /\ ~loading' /\ error' = Null
              /\ books' = (IF last'.op = "docs" THEN Batch(last'.req) ELSE <<>>) ]_vars

\* C29: every fetch that starts sets status to loading; status leaves loading
\* only at the arrival of a response; and when responses are delivered, status
\* does leave loading, for idle or for error.
C29_LoadingEndsWithResponse ==
    /\ [][ (inflight' \ inflight # {}) => Status' = "loading" ]_vars
    /\ [][ (Status = "loading" /\ Status' # "loading")
           => (IsDelivery(last') /\ last'.req \in inflight /\ last'.req \notin inflight') ]_vars
    /\ (Status = "loading") ~> (Status \in {"idle", "error"})

\* A fetch failed and its response ended the loading: status is error.
C29_Witness ==
    /\ last.op = "fail" /\ inflight = {} /\ Status = "error"

\* C30 (as claimed): two consecutive toggles of one record are a no-op on the
\* bookmarks as a whole: the sequence of entries after the second toggle equals
\* the sequence before the first, also when the store held the identity.
C30_ToggleTwiceIsNoOp ==
    [][ (hist' # hist /\ hist'.op = "toggle" /\ hist'.twice)
        => bookmarks' = hist.marks ]_vars

\* C30 (amended): two consecutive toggles of one record leave the sequence as it
\* was when the store did not hold the record's identity; when it did, the
\* entry with that identity is taken out and the toggled record is put at the
\* end, the other entries keeping their order.
C30_ToggleTwiceMovesToEnd ==
    [][ (hist' # hist /\ hist'.op = "toggle" /\ hist'.twice)
        => IF ~Holds(hist.marks, hist'.id)
           THEN bookmarks' = hist.marks
           ELSE bookmarks' =
                   SelectSeq(hist.marks, LAMBDA b : Identity(b) # hist'.id)
                       \o <<hist'.book>> ]_vars

\* A record was toggled twice in a store that held its identity and another
\* entry: it is now the last entry.
C30_Witness ==
    /\ hist.op = "toggle" /\ hist.twice
    /\ Len(bookmarks) = 2 /\ Len(hist.marks) = 1
    /\ bookmarks[2] = hist.book /\ bookmarks[1] = hist.marks[1]

\* C31: collection mutations have a narrow frame: toggleBookmark changes only
\* the bookmarks, addToReadingList and removeFromReadingList change only the
\* reading list, and none of them changes results, page, hasMore, loading or
\* error, the query, or the requests issued and in flight.
C31_CollectionFrame ==
    [][ hist' # hist
        => /\ hist'.op = "toggle" => readingList' = readingList
           /\ hist'.op \in {"add", "remove"} => bookmarks' = bookmarks
           /\ ctrl' = ctrl
           /\ inflight' = inflight /\ issued' = issued
           /\ searchQuery' = searchQuery /\ searchType' = searchType
           /\ filters' = filters ]_vars

\* A load-more request was issued with both collections empty and is still in
\* flight; since then the record was bookmarked, put on the reading list and
\* taken off it again.
C31_Witness ==
    /\ last.op = "loadMore" /\ last.accepted /\ last.stored = 0
    /\ inflight = {last.req} /\ loading /\ books # <<>>
    /\ bookmarks # <<>> /\ readingList = <<>>
    /\ hist.op = "remove" /\ hist.changed

=============================================================================
